---- MODULE Spec2Model ----
(***************************************************************************)
(* CCPT-V (src/CCPT-V_lsl.py): a continuous performance test.              *)
(*                                                                         *)
(*   - create_trial_sequence: the trial-sequence generator;                *)
(*   - the main trial loop: presentation, key collection, scoring, the     *)
(*     CSV record and the LSL markers;                                     *)
(*   - the practice trial loop: presentation, waitKeys and the markers.    *)
(*                                                                         *)
(* Time is counted in ticks of 100 ms, the greatest common divisor of the  *)
(* program's durations (ISIs 0.4/0.6/0.8/1 s, presentation 0.2 s, loop     *)
(* timeout 0.5 s).                                                         *)
(***************************************************************************)
EXTENDS Integers, Sequences, FiniteSets, TLC

VARIABLES
    g_pc,       \* generator call: "call" | "counted" | "returned"
    g_n,        \* the num_trials argument of the call
    g_counts,   \* the four counts of lines 124-127
    g_result    \* the list create_trial_sequence returned

gvars == <<g_pc, g_n, g_counts, g_result>>

VARIABLES
    pc,         \* position of the main session in the script
    trials,     \* trials = create_trial_sequence(num_trials), line 251
    trial_num,  \* line 252
    clk,        \* ticks since the current trial_clock was created (line 275)
    wait,       \* ticks left of the core.wait in progress
    keyBuffer,  \* psychopy's event buffer: pressed keys no getKeys has returned
    keys,       \* the list keys of lines 276 and 288
    data_file,  \* the records written to the CSV file, and whether it is open
    outlet,     \* the markers pushed to the LSL outlet, in order
    win,        \* "open" | "closed"
    presses     \* history: every key press, with where the program was

rvars == <<pc, trials, trial_num, clk, wait, keyBuffer, keys, data_file,
           outlet, win, presses>>

vars == <<g_pc, g_n, g_counts, g_result, pc, trials, trial_num, clk, wait,
          keyBuffer, keys, data_file, outlet, win, presses>>

----------------------------------------------------------------------------
(* Bounds of the model.                                                    *)

\* create_trial_sequence is called with n in -MaxNeg .. MaxN
MaxN == 7
MaxNeg == 5
\* the count computation alone is applied to n in 1 .. MaxCountN
MaxCountN == 400
\* how many of the 8 shapes / 6 colors the random choices draw from
NumShapes == 2
NumColors == 2
\* random.shuffle rotates the list by 0 .. MaxRot places
MaxRot == 1
\* length of the main session (the script sets num_trials = 10, line 16)
num_trials == 4
num_practice == 4
\* key presses in one session
MaxPresses == 2

----------------------------------------------------------------------------
(* Stimulus parameters, lines 52-53.                                       *)

AllShapes == <<"square", "circle", "triangle", "star", "diamond",
               "rectangle", "hexagon", "pentagon">>
AllColors == <<"red", "blue", "green", "yellow", "pink", "orange">>

Min(a, b) == IF a < b THEN a ELSE b

shapes == {AllShapes[i] : i \in 1..Min(NumShapes, Len(AllShapes))}
colors == {AllColors[i] : i \in 1..Min(NumColors, Len(AllColors))}

\* isis = [0.400, 0.600, 0.800, 1] seconds, in ticks (line 153)
isis == <<4, 6, 8, 10>>

----------------------------------------------------------------------------
(* int(num_trials * c) for a double constant c, lines 124-126.             *)
(* c is mant * 2^-exp with a 53-bit mantissa, written as hexadecimal       *)
(* digits, least significant first.  The product is rounded to 53          *)
(* significant bits (round to nearest, ties to even) as the double         *)
(* multiplication does, and int() drops the fraction.                      *)

\* 0.30  = 0x13333333333333 * 2^-54
Mant030 == <<3, 3, 3, 3, 3, 3, 3, 3, 3, 3, 3, 3, 3, 1>>
Exp030 == 54
\* 0.175 = 0x16666666666666 * 2^-55
Mant0175 == <<6, 6, 6, 6, 6, 6, 6, 6, 6, 6, 6, 6, 6, 1>>
Exp0175 == 55
DoubleBits == 53

RECURSIVE MulDigits(_, _, _, _)
\* digits of n * mant, least significant first (n >= 0)
MulDigits(mant, n, k, carry) ==
    IF k > Len(mant)
    THEN IF carry = 0 THEN <<>>
         ELSE <<carry % 16>> \o MulDigits(mant, n, k, carry \div 16)
    ELSE LET t == mant[k] * n + carry
         IN  <<t % 16>> \o MulDigits(mant, n, k + 1, t \div 16)

Pow2(k) == IF k = 0 THEN 1 ELSE IF k = 1 THEN 2 ELSE IF k = 2 THEN 4 ELSE 8

\* bit i (1 = least significant) of the number with hexadecimal digits ds
BitOf(ds, i) ==
    LET k == (i - 1) \div 4 + 1
    IN  IF i < 1 \/ k > Len(ds) THEN 0 ELSE (ds[k] \div Pow2((i - 1) % 4)) % 2

RECURSIVE BitsValue(_, _, _)
\* the number whose bits are bits lo..hi of ds
BitsValue(ds, lo, hi) ==
    IF lo > hi THEN 0 ELSE BitOf(ds, lo) + 2 * BitsValue(ds, lo + 1, hi)

\* the number of bits of a hexadecimal digit
DigitBits(d) == IF d >= 8 THEN 4 ELSE IF d >= 4 THEN 3 ELSE IF d >= 2 THEN 2 ELSE d

\* the rounding of the double product, given the digits ds of the exact one
RoundedInt(ds, exp) ==
    LET nbits == 4 * Len(ds)
        L == IF ds = <<>> THEN 0 ELSE nbits - 4 + DigitBits(ds[Len(ds)])
        s == IF L > DoubleBits THEN L - DoubleBits ELSE 0
        roundUp == /\ s > 0
                   /\ BitOf(ds, s) = 1
                   /\ \/ \E i \in 1..(s - 1) : BitOf(ds, i) = 1
                      \/ BitOf(ds, s + 1) = 1
        carry == roundUp /\ \A i \in (s + 1)..exp : BitOf(ds, i) = 1
    IN  BitsValue(ds, exp + 1, nbits) + (IF carry THEN 1 ELSE 0)

TruncProduct(n, mant, exp) == RoundedInt(MulDigits(mant, n, 1, 0), exp)

\* int() truncates toward zero; the product of a negative n is the negated
\* product of -n
IntTimes(n, mant, exp) ==
    IF n >= 0 THEN TruncProduct(n, mant, exp) ELSE 0 - TruncProduct(0 - n, mant, exp)

----------------------------------------------------------------------------
(* create_trial_sequence, lines 120-170.                                   *)

\* lines 124-127
TrialCounts(n) ==
    LET target_count == IntTimes(n, Mant030, Exp030)
        non_red_square_count == IntTimes(n, Mant0175, Exp0175)
        red_non_square_count == IntTimes(n, Mant0175, Exp0175)
    IN  [target_count |-> target_count,
         non_red_square_count |-> non_red_square_count,
         red_non_square_count |-> red_non_square_count,
         other_count |-> n - target_count - non_red_square_count
                         - red_non_square_count]

\* NonRed without its filter
NonRed_Unfiltered == colors

\* [c for c in colors if c != 'red'], lines 135 and 146
NonRed == {c \in colors : c # "red"}
\* [s for s in shapes if s != 'square'], lines 140 and 145
NonSquare == {s \in shapes : s # "square"}

Trial(s, c, t) == [shape |-> s, color |-> c, is_target |-> t]

\* for _ in range(k): trials.append(one of choices); range(k) is empty for k <= 0
Appended(k, choices) == [1..k -> choices]

TargetTrials == {Trial("square", "red", TRUE)}
NonRedSquareTrials == {Trial("square", c, FALSE) : c \in NonRed}
RedNonSquareTrials == {Trial(s, "red", FALSE) : s \in NonSquare}
OtherTrials == {Trial(s, c, FALSE) : s \in NonSquare, c \in NonRed}

\* range(k) and [x] * k are empty for k <= 0 (lines 130-147, 156)
Max0(k) == IF k > 0 THEN k ELSE 0

Rotate(s, k) == [i \in 1..Len(s) |-> s[((i - 1 + k) % Len(s)) + 1]]

\* random.shuffle(s), lines 150 and 164, when the random source draws k: the
\* permutations drawn here are the rotations of s
Shuffle(s, k) == Rotate(s, k)

\* IsiCount, one too few
IsiCount_OneLess(len) == len \div Len(isis) - 1

\* isi_count = len(trials) // len(isis), line 154
IsiCount(len) == len \div Len(isis)

\* lines 155-157: each isi, isi_count times, in the order of isis ([isi] * k is
\* the empty list for k <= 0)
IsiFill(len) ==
    [i \in 1..(Len(isis) * Max0(IsiCount(len))) |->
        isis[(i - 1) \div IsiCount(len) + 1]]

IsiValues == {isis[i] : i \in 1..Len(isis)}

\* len(trials) after the four loops of lines 130-147
TrialsLen(n) ==
    LET c == TrialCounts(n)
    IN  Max0(c.target_count) + Max0(c.non_red_square_count)
        + Max0(c.red_non_square_count) + Max0(c.other_count)

\* what the random source can give to one call: the choices of lines 135, 140,
\* 145-146 as the trials appended, the two shuffles, and the choices of line
\* 161, made while the ISI list is shorter than the trial list
Draws(n) ==
    LET c == TrialCounts(n)
    IN  [t1 : Appended(c.target_count, TargetTrials),
         t2 : Appended(c.non_red_square_count, NonRedSquareTrials),
         t3 : Appended(c.red_non_square_count, RedNonSquareTrials),
         t4 : Appended(c.other_count, OtherTrials),
         shuffle1 : 0..MaxRot,
         extra : [1..(TrialsLen(n) - Len(IsiFill(TrialsLen(n)))) -> IsiValues],
         shuffle2 : 0..MaxRot]

\* lines 167-168
Assign(ts, isi_list) ==
    [i \in 1..Len(ts) |->
        [shape |-> ts[i].shape, color |-> ts[i].color,
         is_target |-> ts[i].is_target, isi |-> isi_list[i]]]

\* the list the call returns when the random source gives d
create_trial_sequence(n, d) ==
    LET built == d.t1 \o d.t2 \o d.t3 \o d.t4
        shuffled == Shuffle(built, d.shuffle1)
        isi_list == Shuffle(IsiFill(Len(shuffled)) \o d.extra, d.shuffle2)
    IN  Assign(shuffled, isi_list)

----------------------------------------------------------------------------
(* The generator, called on its own.                                       *)

NoCounts == [target_count |-> 0, non_red_square_count |-> 0,
             red_non_square_count |-> 0, other_count |-> 0]

\* the session is not running
RunnerIdle ==
    /\ pc = "idle"
    /\ trials = <<>>
    /\ trial_num = 0
    /\ clk = 0
    /\ wait = 0
    /\ keyBuffer = <<>>
    /\ keys = <<>>
    /\ data_file = [open |-> FALSE, rows |-> <<>>]
    /\ outlet = <<>>
    /\ win = "open"
    /\ presses = <<>>

GenInit ==
    /\ g_pc = "call"
    /\ g_n \in (0 - MaxNeg)..MaxN
    /\ g_counts = NoCounts
    /\ g_result = <<>>
    /\ RunnerIdle

\* lines 121-127
GenCounts ==
    /\ g_pc = "call"
    /\ g_counts' = TrialCounts(g_n)
    /\ g_pc' = "counted"
    /\ UNCHANGED <<g_n, g_result>>
    /\ UNCHANGED rvars

\* lines 129-170
GenReturn ==
    /\ g_pc = "counted"
    /\ \E d \in Draws(g_n) : g_result' = create_trial_sequence(g_n, d)
    /\ g_pc' = "returned"
    /\ UNCHANGED <<g_n, g_counts>>
    /\ UNCHANGED rvars

GenNext == GenCounts \/ GenReturn

SpecGen == GenInit /\ [][GenNext]_vars

\* the count computation of lines 124-127 alone, over a wider range of n
CountsInit ==
    /\ g_pc = "call"
    /\ g_n \in 1..MaxCountN
    /\ g_counts = NoCounts
    /\ g_result = <<>>
    /\ RunnerIdle

CountsNext == GenCounts

SpecCounts == CountsInit /\ [][CountsNext]_vars

----------------------------------------------------------------------------
(* The main session, lines 246-345.                                        *)

\* core.wait(0.200), line 279
presentation == 2
\* timeout = 0.5, line 284
timeout == 5

KeyNames == {"space", "escape"}

Key(k, t) == [key |-> k, t |-> t]

\* 'k' in [k[0] for k in ks], lines 289 and 297
HasKey(ks, k) == \E i \in 1..Len(ks) : ks[i].key = k

\* event.getKeys(timeStamped=trial_clock): every buffered key, its time taken
\* from the moment the clock was created (origin, on the scale of clk)
TimeStamped(buf, origin) == [i \in 1..Len(buf) |-> Key(buf[i].key, buf[i].t - origin)]

\* event.getKeys(['escape']), line 313: the escapes are returned, the other
\* keys stay in the buffer
IsEscape(k) == k.key = "escape"
NotEscape(k) == k.key # "escape"

Marker(ev, trial, info) == [ev |-> ev, trial |-> trial, info |-> info]

\* Push, putting the marker ahead of the earlier ones
Push_Front(o, m) == [o EXCEPT !.markers = <<m>> \o @]

\* outlet.push_sample([...]): the marker goes out after all earlier ones
Push(o, m) == [o EXCEPT !.markers = Append(@, m)]

\* trial_num += 1, line 255
NextTrialNum(n) == n + 1

\* is_target_str, line 268
TargetStr(t) == IF t THEN "target" ELSE "non_target"

\* lines 296-304: the first space key of keys; rt is <<>> for None
FirstSpace(ks) ==
    LET i == CHOOSE i \in 1..Len(ks) :
                 ks[i].key = "space" /\ \A j \in 1..(i - 1) : ks[j].key # "space"
    IN  ks[i].t

\* ReactionTime, taking the time of the first key of any name
ReactionTime_FirstKey(ks, response) ==
    IF ks # <<>> THEN <<ks[1].t>> ELSE <<>>

\* rt of lines 273 and 298-302: None (<<>>) unless there is a response, then the
\* time of the first space key
ReactionTime(ks, response) ==
    IF response THEN <<FirstSpace(ks)>> ELSE <<>>

\* Correct, counting hits only
Correct_HitsOnly(is_target, response) == is_target /\ response

\* line 307
Correct(is_target, response) ==
    (is_target /\ response) \/ (~is_target /\ ~response)

\* Row, numbering the trials from zero
Row_ZeroBased(n, trial, response, rt) ==
    [trial |-> n - 1, shape |-> trial.shape, color |-> trial.color,
     is_target |-> trial.is_target, isi |-> trial.isi, response |-> response,
     rt |-> rt, correct |-> (trial.is_target = response)]

\* line 310
Row(n, trial, response, rt) ==
    [trial |-> n, shape |-> trial.shape, color |-> trial.color,
     is_target |-> trial.is_target, isi |-> trial.isi, response |-> response,
     rt |-> rt, correct |-> Correct(trial.is_target, response)]

\* the state at line 252: the practice block is over, the waitKeys of line 243
\* has emptied the key buffer, the data file is open with its header and the
\* trial list has been generated
Init ==
    /\ pc = "next"
    /\ \E d \in Draws(num_trials) : trials = create_trial_sequence(num_trials, d)
    /\ trial_num = 0
    /\ clk = 0
    /\ wait = 0
    /\ keyBuffer = <<>>
    /\ keys = <<>>
    /\ data_file = [open |-> TRUE, rows |-> <<>>]
    /\ outlet = [open |-> TRUE,
                 markers |-> <<Marker("main_experiment_start", 0, <<>>)>>]
    /\ win = "open"
    /\ presses = <<>>
    /\ g_pc = "returned"
    /\ g_n = num_trials
    /\ g_counts = TrialCounts(num_trials)
    /\ g_result = trials

\* the participant presses a key while the script waits or polls
KeyPress ==
    /\ Len(presses) < MaxPresses
    /\ \/ pc \in {"isi_wait", "present"} /\ wait > 0
       \/ pc = "loop"
    /\ \E k \in KeyNames :
        /\ keyBuffer' = Append(keyBuffer, Key(k, clk))
        /\ presses' = Append(presses,
               [key |-> k, trial_num |-> trial_num, pc |-> pc,
                onset |-> IF pc = "isi_wait" THEN trial_num - 1 ELSE trial_num,
                t |-> clk])
    /\ UNCHANGED <<pc, trials, trial_num, clk, wait, keys, data_file, outlet, win>>
    /\ UNCHANGED gvars

\* lines 254-260: the next trial of the for loop, up to the start of the ISI wait
IsiStart ==
    /\ pc = "next"
    /\ trial_num < Len(trials)
    /\ trial_num' = NextTrialNum(trial_num)
    /\ outlet' = Push(outlet, Marker("isi", trial_num', <<>>))
    /\ wait' = trials[trial_num'].isi
    /\ pc' = "isi_wait"
    /\ UNCHANGED <<trials, clk, keyBuffer, keys, data_file, win, presses>>
    /\ UNCHANGED gvars

\* core.wait, lines 260 and 279: one tick of the wait goes by
WaitTick ==
    /\ pc \in {"isi_wait", "present"}
    /\ wait > 0
    /\ wait' = wait - 1
    /\ clk' = clk + 1
    /\ UNCHANGED <<pc, trials, trial_num, keyBuffer, keys, data_file, outlet,
                   win, presses>>
    /\ UNCHANGED gvars

\* lines 262-279: the stimulus is shown, trial_clock is created, the buffered
\* keys are taken, the presentation wait starts
StimulusOn ==
    /\ pc = "isi_wait"
    /\ wait = 0
    /\ LET trial == trials[trial_num]
       IN  outlet' = Push(outlet, Marker("stim", trial_num,
                <<trial.shape, trial.color, TargetStr(trial.is_target)>>))
    /\ keys' = TimeStamped(keyBuffer, clk)
    /\ keyBuffer' = <<>>
    /\ clk' = 0
    /\ wait' = presentation
    /\ pc' = "present"
    /\ UNCHANGED <<trials, trial_num, data_file, win, presses>>
    /\ UNCHANGED gvars

\* lines 280-281
StimulusOff ==
    /\ pc = "present"
    /\ wait = 0
    /\ outlet' = Push(outlet, Marker("stim_offset", trial_num, <<>>))
    /\ pc' = "loop"
    /\ UNCHANGED <<trials, trial_num, clk, wait, keyBuffer, keys, data_file,
                   win, presses>>
    /\ UNCHANGED gvars

\* lines 285-293: the polls of one tick of the while loop
LoopPoll ==
    /\ pc = "loop"
    /\ clk < timeout
    /\ LET these_keys == TimeStamped(keyBuffer, 0)
           extended == IF these_keys # <<>> THEN keys \o these_keys ELSE keys
       IN  /\ keyBuffer' = <<>>
           /\ keys' = extended
           /\ IF these_keys # <<>> /\ HasKey(extended, "escape")
              THEN /\ outlet' = Push(outlet, Marker("experiment_aborted", 0, <<>>))
                   /\ data_file' = [data_file EXCEPT !.open = FALSE]
                   /\ win' = "closed"
                   /\ pc' = "quit"
                   /\ clk' = clk
              ELSE /\ clk' = clk + 1
                   /\ UNCHANGED <<pc, data_file, outlet, win>>
    /\ UNCHANGED <<trials, trial_num, wait, presses>>
    /\ UNCHANGED gvars

\* lines 285 (the loop ends) and 295-310
Score ==
    /\ pc = "loop"
    /\ ~(clk < timeout)
    /\ LET trial == trials[trial_num]
           response == keys # <<>> /\ HasKey(keys, "space")
           rt == ReactionTime(keys, response)
       IN  /\ outlet' = IF response
                        THEN Push(outlet, Marker("response", trial_num, rt))
                        ELSE outlet
           /\ data_file' = [data_file EXCEPT
                               !.rows = Append(@, Row(trial_num, trial, response, rt))]
    /\ pc' = "quit_check"
    /\ UNCHANGED <<trials, trial_num, clk, wait, keyBuffer, keys, win, presses>>
    /\ UNCHANGED gvars

\* lines 312-315, and the for loop going on or running out
QuitCheck ==
    /\ pc = "quit_check"
    /\ keyBuffer' = SelectSeq(keyBuffer, NotEscape)
    /\ IF SelectSeq(keyBuffer, IsEscape) # <<>>
       THEN /\ outlet' = Push(outlet, Marker("experiment_aborted", 0, <<>>))
            /\ pc' = "complete"
       ELSE /\ outlet' = outlet
            /\ pc' = IF trial_num < Len(trials) THEN "next" ELSE "complete"
    /\ UNCHANGED <<trials, trial_num, clk, wait, keys, data_file, win, presses>>
    /\ UNCHANGED gvars

\* lines 317-322
Complete ==
    /\ pc = "complete"
    /\ outlet' = Push(outlet, Marker("experiment_complete", 0, <<>>))
    /\ data_file' = [data_file EXCEPT !.open = FALSE]
    /\ win' = "closed"
    /\ pc' = "final"
    /\ UNCHANGED <<trials, trial_num, clk, wait, keyBuffer, keys, presses>>
    /\ UNCHANGED gvars

\* lines 324-345
Final ==
    /\ pc = "final"
    /\ outlet' = [open |-> FALSE,
                  markers |-> Append(outlet.markers,
                                     Marker("final_message_displayed", 0, <<>>))]
    /\ pc' = "done"
    /\ UNCHANGED <<trials, trial_num, clk, wait, keyBuffer, keys, data_file,
                   win, presses>>
    /\ UNCHANGED gvars

Next ==
    \/ KeyPress
    \/ IsiStart
    \/ WaitTick
    \/ StimulusOn
    \/ StimulusOff
    \/ LoopPoll
    \/ Score
    \/ QuitCheck
    \/ Complete
    \/ Final

Spec == Init /\ [][Next]_vars

----------------------------------------------------------------------------
(* The practice block, lines 187-230.                                      *)

\* event.waitKeys(maxWait=0.200, ...), line 212
maxWait == 2

\* the clearEvents=True of event.waitKeys, line 212, with the keyboard buffer
\* left as it is
ClearEvents_Keep(buf) == buf

\* the clearEvents=True of event.waitKeys, line 212: the keyboard buffer is
\* emptied before the wait begins
ClearEvents(buf) == <<>>

\* the state at line 188: the waitKeys of line 184 has emptied the key buffer,
\* the practice list has been generated, the data file is not yet opened
PracticeInit ==
    /\ pc = "p_next"
    /\ \E d \in Draws(num_practice) :
           trials = create_trial_sequence(num_practice, d)
    /\ trial_num = 0
    /\ clk = 0
    /\ wait = 0
    /\ keyBuffer = <<>>
    /\ keys = <<>>
    /\ data_file = [open |-> FALSE, rows |-> <<>>]
    /\ outlet = [open |-> TRUE,
                 markers |-> <<Marker("practice_instructions_displayed", 0, <<>>),
                               Marker("practice_start", 0, <<>>)>>]
    /\ win = "open"
    /\ presses = <<>>
    /\ g_pc = "returned"
    /\ g_n = num_practice
    /\ g_counts = TrialCounts(num_practice)
    /\ g_result = trials

\* the participant presses a key while the script waits
PracticeKeyPress ==
    /\ Len(presses) < MaxPresses
    /\ \/ pc = "p_isi_wait" /\ wait > 0
       \/ pc = "p_wait_keys"
    /\ \E k \in KeyNames :
        /\ keyBuffer' = Append(keyBuffer, Key(k, clk))
        /\ presses' = Append(presses,
               [key |-> k, trial_num |-> trial_num, pc |-> pc,
                onset |-> IF pc = "p_isi_wait" THEN trial_num - 1 ELSE trial_num,
                t |-> clk])
    /\ UNCHANGED <<pc, trials, trial_num, clk, wait, keys, data_file, outlet, win>>
    /\ UNCHANGED gvars

\* lines 190-196: the next practice trial, up to the start of the ISI wait
PracticeIsiStart ==
    /\ pc = "p_next"
    /\ trial_num < Len(trials)
    /\ trial_num' = NextTrialNum(trial_num)
    /\ outlet' = Push(outlet, Marker("practice_isi", trial_num', <<>>))
    /\ wait' = trials[trial_num'].isi
    /\ pc' = "p_isi_wait"
    /\ UNCHANGED <<trials, clk, keyBuffer, keys, data_file, win, presses>>
    /\ UNCHANGED gvars

\* core.wait(trial['isi']), line 196: one tick of the wait goes by
PracticeWaitTick ==
    /\ pc = "p_isi_wait"
    /\ wait > 0
    /\ wait' = wait - 1
    /\ clk' = clk + 1
    /\ UNCHANGED <<pc, trials, trial_num, keyBuffer, keys, data_file, outlet,
                   win, presses>>
    /\ UNCHANGED gvars

\* lines 198-212: the stimulus is shown, trial_clock is created, waitKeys
\* clears the keyboard buffer and starts to poll
PracticeStimulusOn ==
    /\ pc = "p_isi_wait"
    /\ wait = 0
    /\ LET trial == trials[trial_num]
       IN  outlet' = Push(outlet, Marker("practice_stim", trial_num,
                <<trial.shape, trial.color, TargetStr(trial.is_target)>>))
    /\ keyBuffer' = ClearEvents(TimeStamped(keyBuffer, clk))
    /\ keys' = <<>>
    /\ clk' = 0
    /\ pc' = "p_wait_keys"
    /\ UNCHANGED <<trials, trial_num, wait, data_file, win, presses>>
    /\ UNCHANGED gvars

\* lines 214-228, once waitKeys has returned ks (<<>> for None)
PracticeAfterKeys(ks) ==
    LET offset == Push(outlet, Marker("practice_stim_offset", trial_num, <<>>))
    IN  /\ keys' = ks
        /\ IF ks # <<>> /\ HasKey(ks, "escape")
           THEN /\ outlet' = Push(offset, Marker("practice_aborted", 0, <<>>))
                /\ win' = "closed"
                /\ pc' = "quit"
           ELSE /\ outlet' = IF ks # <<>> /\ HasKey(ks, "space")
                             THEN Push(offset, Marker("practice_response",
                                                      trial_num, <<ks[1].t>>))
                             ELSE offset
                /\ win' = win
                /\ pc' = "p_next"

\* the polling loop of event.waitKeys, line 212: a poll that finds no key lets
\* a tick go by; a poll that finds keys returns them, and lines 214-228 follow
PracticeWaitKeys ==
    /\ pc = "p_wait_keys"
    /\ clk < maxWait
    /\ IF keyBuffer = <<>>
       THEN /\ clk' = clk + 1
            /\ UNCHANGED <<pc, keyBuffer, keys, outlet, win>>
       ELSE /\ PracticeAfterKeys(TimeStamped(keyBuffer, 0))
            /\ keyBuffer' = <<>>
            /\ clk' = clk
    /\ UNCHANGED <<trials, trial_num, wait, data_file, presses>>
    /\ UNCHANGED gvars

\* event.waitKeys returns None once maxWait has gone by, and lines 214-228 follow
PracticeMaxWait ==
    /\ pc = "p_wait_keys"
    /\ ~(clk < maxWait)
    /\ PracticeAfterKeys(<<>>)
    /\ UNCHANGED <<trials, trial_num, clk, wait, keyBuffer, data_file, presses>>
    /\ UNCHANGED gvars

\* lines 230-242: the practice list has run out
PracticeComplete ==
    /\ pc = "p_next"
    /\ ~(trial_num < Len(trials))
    /\ outlet' = Push(Push(outlet, Marker("practice_complete", 0, <<>>)),
                      Marker("main_instructions_displayed", 0, <<>>))
    /\ pc' = "p_done"
    /\ UNCHANGED <<trials, trial_num, clk, wait, keyBuffer, keys, data_file,
                   win, presses>>
    /\ UNCHANGED gvars

PracticeNext ==
    \/ PracticeKeyPress
    \/ PracticeIsiStart
    \/ PracticeWaitTick
    \/ PracticeStimulusOn
    \/ PracticeWaitKeys
    \/ PracticeMaxWait
    \/ PracticeComplete

SpecPractice == PracticeInit /\ [][PracticeNext]_vars

----------------------------------------------------------------------------
(* Properties.                                                             *)

rows == data_file.rows

Aborted == \E i \in 1..Len(outlet.markers) : outlet.markers[i].ev = "experiment_aborted"

AbortedCount ==
    Cardinality({i \in 1..Len(outlet.markers) :
                    outlet.markers[i].ev = "experiment_aborted"})

\* the response window of the design: the presentation and a further 500 ms
WindowEnd == presentation + timeout

\* press j is the first key press since the ISI of trial k began
FirstPressOfTrial(j, k) ==
    \A i \in 1..(j - 1) : presses[i].onset # k /\ presses[i].trial_num # k

\* C1: a space press at any time from stimulus onset to 700 ms after it, with
\* no earlier press in the trial, gives the trial a record with response = True.
C1_WindowCoversGrace ==
    \A j \in 1..Len(presses) :
        LET p == presses[j]
        IN  ( /\ p.key = "space"
              /\ p.onset >= 1
              /\ p.t >= 0 /\ p.t <= WindowEnd
              /\ FirstPressOfTrial(j, p.onset)
              /\ Len(rows) >= p.onset )
            => rows[p.onset].response = TRUE

\* C2: an escape press in any state of a trial leads to an "aborted" marker and
\* the end of the session: once the script has gone on to the next trial, or
\* has ended, after an escape press, the marker has been pushed.
C2_EscapeAlwaysAborts ==
    \A j \in 1..Len(presses) :
        ( /\ presses[j].key = "escape"
          /\ \/ trial_num > presses[j].trial_num
             \/ pc \in {"final", "done", "quit"} )
        => Aborted

\* the press came before the trial's window closed
BeforeResolution(p) ==
    \/ p.pc \in {"isi_wait", "present"}
    \/ p.pc = "loop" /\ p.t < timeout

\* C3: an escape during trial k, before the trial is resolved, leaves exactly
\* the records of trials 1..k-1, exactly one "aborted" marker and no record of
\* trial k.
C3_AbortLeavesPriorRecords ==
    \A j \in 1..Len(presses) :
        LET p == presses[j]
        IN  ( /\ p.key = "escape"
              /\ BeforeResolution(p)
              /\ \A i \in 1..(j - 1) : presses[i].key # "escape" )
            => /\ Len(rows) <= p.trial_num - 1
               /\ pc \in {"quit", "done"} =>
                    Len(rows) = p.trial_num - 1 /\ AbortedCount = 1

\* C4: the four category counts are floor(0.30 N), floor(0.175 N),
\* floor(0.175 N) and the rest of N, for every N > 0.
C4_ExactCounts ==
    (g_pc = "counted" /\ g_n > 0) =>
        /\ g_counts.target_count = (30 * g_n) \div 100
        /\ g_counts.non_red_square_count = (175 * g_n) \div 1000
        /\ g_counts.red_non_square_count = (175 * g_n) \div 1000
        /\ g_counts.other_count =
               g_n - (30 * g_n) \div 100 - 2 * ((175 * g_n) \div 1000)

\* C5: every record has correct = (is_target and responded) or (not is_target
\* and not responded), is_target being the trial's, so that the stored fields
\* give the stored value back.
C5_CorrectScoring ==
    \A i \in 1..Len(rows) :
        /\ rows[i].is_target = trials[i].is_target
        /\ rows[i].correct = ( \/ rows[i].is_target /\ rows[i].response
                               \/ ~rows[i].is_target /\ ~rows[i].response )

\* a hit, a false alarm and a correct rejection have been recorded
C5_Witness ==
    /\ \E i \in 1..Len(rows) :
           rows[i].is_target /\ rows[i].response /\ rows[i].correct
    /\ \E i \in 1..Len(rows) :
           ~rows[i].is_target /\ rows[i].response /\ ~rows[i].correct
    /\ \E i \in 1..Len(rows) :
           ~rows[i].is_target /\ ~rows[i].response /\ rows[i].correct

\* the times of the space presses in the window of trial k
WindowSpaces(k) ==
    {presses[j].t : j \in {i \in 1..Len(presses) :
                              /\ presses[i].key = "space"
                              /\ presses[i].onset = k
                              /\ presses[i].t >= 0
                              /\ presses[i].t <= WindowEnd}}

\* C6: of several space presses in a trial's response window only the first
\* counts: the record's reaction time is the time of the earliest of them from
\* stimulus onset, between 0 and the window length.
C6_FirstPressCounts ==
    \A k \in 1..Len(rows) :
        Cardinality(WindowSpaces(k)) >= 2 =>
            /\ rows[k].response
            /\ \E t \in WindowSpaces(k) :
                   /\ \A u \in WindowSpaces(k) : t <= u
                   /\ rows[k].rt = <<t>>

\* C7: create_trial_sequence returns no list, empty or not, for n <= 0.
C7_RejectsNonPositive ==
    g_pc = "returned" => g_n > 0

IsiUses(v) == Cardinality({i \in 1..Len(g_result) : g_result[i].isi = v})

\* C8: every returned trial has one ISI of {0.4, 0.6, 0.8, 1.0} s, and each of
\* the four is used at least floor(N/4) times among the N trials, which leaves
\* N mod 4 trials to the free choices.
C8_IsiDistribution ==
    (g_pc = "returned" /\ g_n > 0) =>
        /\ Len(g_result) = g_n
        /\ \A i \in 1..Len(g_result) : g_result[i].isi \in {4, 6, 8, 10}
        /\ \A v \in {4, 6, 8, 10} : IsiUses(v) >= g_n \div 4
        /\ IsiUses(4) + IsiUses(6) + IsiUses(8) + IsiUses(10) - 4 * (g_n \div 4)
               = g_n % 4

\* both leftover slots of six trials went to the same ISI
C8_Witness ==
    g_pc = "returned" /\ g_n = 6 /\ IsiUses(10) = 3

\* C9: a trial is a target exactly when it is a red square.
C9_TargetIffRedSquare ==
    g_pc = "returned" =>
        \A i \in 1..Len(g_result) :
            g_result[i].is_target <=>
                (g_result[i].shape = "square" /\ g_result[i].color = "red")

\* a list with a target, a non-red square and a red non-square
C9_Witness ==
    /\ g_pc = "returned"
    /\ \E i \in 1..Len(g_result) : g_result[i].is_target
    /\ \E i \in 1..Len(g_result) :
           g_result[i].shape = "square" /\ g_result[i].color # "red"
    /\ \E i \in 1..Len(g_result) :
           g_result[i].shape # "square" /\ g_result[i].color = "red"

\* the script is past the while loop of the current trial
WindowClosed == pc \in {"quit_check", "next", "complete", "final", "done"}

\* C10: a session that is not aborted writes one record per trial, once, after
\* the trial's window has closed, in the order of the trials.
C10_OneRecordPerTrial ==
    /\ \A i \in 1..Len(rows) : rows[i].trial = i
    /\ Len(rows) <= trial_num
    /\ Len(rows) >= trial_num - 1
    /\ trial_num > 0 => (Len(rows) = trial_num <=> WindowClosed)
    /\ (pc = "done" /\ ~Aborted) => Len(rows) = num_trials

\* a session ended with no abort and with all its records
C10_Witness ==
    pc = "done" /\ ~Aborted /\ Len(rows) = num_trials /\ Len(presses) > 0

markers == outlet.markers

\* the positions of the markers of event ev of trial k
Positions(ev, k) ==
    {i \in 1..Len(markers) : markers[i].ev = ev /\ markers[i].trial = k}

Emitted(ev, k) == Positions(ev, k) # {}

\* C11: a space press made while no response window is open (in an ISI wait, or
\* after the window of the trial before has closed) gives no record a response:
\* a record with response = True has a space press made between its trial's
\* stimulus onset and the end of its trial's polling, and its rt is the time
\* of that press.
C11_NoStaleResponse ==
    \A k \in 1..Len(rows) :
        rows[k].response =>
            \E j \in 1..Len(presses) :
                /\ presses[j].key = "space"
                /\ presses[j].trial_num = k
                /\ presses[j].pc \in {"present", "loop"}
                /\ rows[k].rt = <<presses[j].t>>

\* C12: the deadline of the response window is inclusive: a space press at the
\* deadline itself, the first press of its trial, is recorded as the trial's
\* response with the deadline as its rt, and no record has an rt past it.
C12_DeadlineInclusive ==
    /\ \A j \in 1..Len(presses) :
           LET p == presses[j]
           IN  ( /\ p.key = "space"
                 /\ p.pc = "loop"
                 /\ p.t = timeout
                 /\ FirstPressOfTrial(j, p.trial_num)
                 /\ Len(rows) >= p.trial_num )
               => /\ rows[p.trial_num].response
                  /\ rows[p.trial_num].rt = <<timeout>>
    /\ \A k \in 1..Len(rows) :
           rows[k].response => rows[k].rt[1] <= timeout

\* C13: the window of a trial closes at the first space press made in it: the
\* script is never still polling before the timeout with such a press already
\* collected.
C13_ClosesOnFirstPress ==
    ~ ( /\ pc = "loop"
        /\ clk < timeout
        /\ \E i \in 1..Len(keys) : keys[i].key = "space" /\ keys[i].t >= 0 )

\* C14: the stimulus-offset marker of a trial, practice or main, goes out 200 ms
\* after the stimulus onset, whatever was pressed during the presentation: the
\* main presentation wait ends at 200 ms on the trial clock, and once a
\* practice trial's offset marker is out the trial clock stands at 200 ms.
C14_OffsetAt200ms ==
    /\ pc = "present" => clk + wait = presentation
    /\ Emitted("practice_stim_offset", trial_num) => clk = maxWait

\* C15: for each main trial k the markers isi, stim and stim_offset go out once
\* each and in this order, the record of trial k is written after its
\* stim_offset marker, and the isi marker of trial k + 1 goes out only after the
\* record of trial k is written.
C15_LifecycleOrder ==
    \A k \in 1..num_trials :
        /\ \A ev \in {"isi", "stim", "stim_offset"} :
               Cardinality(Positions(ev, k)) <= 1
        /\ Emitted("stim", k) =>
               /\ Emitted("isi", k)
               /\ \A i \in Positions("isi", k), j \in Positions("stim", k) : i < j
        /\ Emitted("stim_offset", k) =>
               /\ Emitted("stim", k)
               /\ \A i \in Positions("stim", k), j \in Positions("stim_offset", k) :
                      i < j
        /\ Len(rows) >= k => Emitted("stim_offset", k)
        /\ Emitted("isi", k + 1) => Len(rows) >= k

\* every trial of a session has gone through its whole lifecycle
C15_Witness ==
    /\ pc = "final"
    /\ Len(rows) = num_trials
    /\ \A k \in 1..num_trials : Emitted("stim_offset", k)

\* C16: every main trial that has been resolved (its record is written) has
\* put out exactly one event of its resolution, with or without a response.
C16_OneResolvedEvent ==
    \A k \in 1..Len(rows) : Cardinality(Positions("response", k)) = 1

\* C17: when the process has exited after an abort, the data file, if it was
\* opened, is closed and the marker outlet is released.
C17_AbortReleasesResources ==
    (pc \in {"quit", "done"} /\ (Aborted \/ Emitted("practice_aborted", 0))) =>
        /\ ~data_file.open
        /\ ~outlet.open

\* C18: a practice trial captures a key only in the 200 ms from its stimulus
\* onset: every practice_response marker of a trial stands for a space press
\* made in that trial's waitKeys, at most 200 ms after the onset, and carries
\* the time of that press; the keys waitKeys returns all lie in these 200 ms.
C18_PracticeWindow ==
    /\ \A i \in 1..Len(markers) :
           markers[i].ev = "practice_response" =>
               \E j \in 1..Len(presses) :
                   /\ presses[j].key = "space"
                   /\ presses[j].trial_num = markers[i].trial
                   /\ presses[j].pc = "p_wait_keys"
                   /\ presses[j].t >= 0 /\ presses[j].t <= maxWait
                   /\ markers[i].info = <<presses[j].t>>
    /\ pc \in {"p_next", "p_done"} =>
           \A i \in 1..Len(keys) : keys[i].t >= 0 /\ keys[i].t <= maxWait

\* a practice response has been captured, and a space pressed outside the
\* 200 ms of a practice trial was left out
C18_Witness ==
    /\ pc = "p_done"
    /\ \E i \in 1..Len(markers) : markers[i].ev = "practice_response"
    /\ Cardinality({i \in 1..Len(markers) :
                       markers[i].ev = "practice_response"}) < Len(presses)
    /\ \A j \in 1..Len(presses) : presses[j].key = "space"

\* C19: the experiment_aborted marker is the last marker of a session; with it,
\* experiment_complete never goes out.
C19_NothingAfterAborted ==
    \A i \in 1..Len(markers) :
        markers[i].ev = "experiment_aborted" => i = Len(markers)

\* C20: in every record rt is None exactly when response is False, and a trial
\* has a response marker exactly when its record has response = True.
C20_RtIffResponse ==
    \A k \in 1..Len(rows) :
        /\ (rows[k].rt = <<>>) <=> ~rows[k].response
        /\ Emitted("response", k) <=> rows[k].response
        /\ Cardinality(Positions("response", k)) <= 1

\* a record with a response and a record of a trial with keys but no response
C20_Witness ==
    /\ \E k \in 1..Len(rows) : rows[k].response /\ rows[k].rt # <<>>
    /\ \E k \in 1..Len(rows) : ~rows[k].response /\ rows[k].rt = <<>>
    /\ \E j \in 1..Len(presses) : presses[j].key = "escape"
    /\ pc = "done" /\ ~Aborted

====
